---- MODULE Spec2Model ----
(***************************************************************************)
(* The request execution pipeline of the ManyChat client (src/client.py):  *)
(* the connection context, the rate limiter, the retry decorator and the   *)
(* classification of an HTTP exchange, together with the endpoint          *)
(* functions that call it and the response shapes they parse into.         *)
(*                                                                         *)
(* Time is counted in ticks of the event loop's clock; TicksPerSec ticks   *)
(* make one second.  The code reads the clock only to subtract              *)
(* _last_request_time from it and to sleep, so the model keeps that         *)
(* difference (elapsed, which stops counting at one second) and the time    *)
(* left of each sleep instead of absolute times.  A step of the model is    *)
(* what one coroutine runs between two suspension points of the event loop. *)
(***************************************************************************)
EXTENDS Integers, Sequences, FiniteSets, TLC

VARIABLES
    kwargs,                 \* the keyword arguments ManyChatConfig(...) was called with
    built,                  \* how far construction got: config, client, or the error
    waited,                 \* per task: the last backoff wait of the call it is in
    config,                 \* ManyChatClient.config (api_key, rate_limit, max_retries)
    semLegacy,              \* which asyncio.Semaphore implementation the interpreter ships
    session,                \* ManyChatClient._session
    rate_limit_semaphore,   \* ManyChatClient._rate_limit_semaphore
    elapsed,                \* loop.time() - ManyChatClient._last_request_time, in ticks
    pc,                     \* where each task's coroutine is suspended
    call,                   \* the call each task is executing
    tries,                  \* invocations of _request made by the retry decorator
    sleepLeft,              \* ticks left of the sleep a task is suspended in
    sent,                   \* the HTTP request a task dispatched last
    dispatched,             \* number of HTTP requests a task dispatched for its call
    exchange,               \* the outcome of the last HTTP exchange of a task's call
    seen,                   \* the kinds of outcome the exchanges of a task's call had
    result,                 \* what the call returned or raised
    openContexts,           \* connection contexts created and not closed
    lastGap                 \* time between the last two writes of _last_request_time
                            \* (a second or more: TicksPerSec)

vars == <<waited, kwargs, built, config, semLegacy, session, rate_limit_semaphore, elapsed, pc, call, tries,
          sleepLeft, sent, dispatched, exchange, seen, result, openContexts, lastGap>>

-----------------------------------------------------------------------------
(* Bounds of the model *)

NumTasks == 2
TicksPerSec == 2
MaxTags == 2

Tasks == 1..NumTasks

Min(a, b) == IF a < b THEN a ELSE b
Max(a, b) == IF a < b THEN b ELSE a

-----------------------------------------------------------------------------
(* Configuration: src/config.py *)

ApiKey == "test_api_key"
RateLimitDefault == 100
MaxRetriesDefault == 3
SecondsPerMinute == 60

\* URLs: the host and the segments of the path
Url(host, path) == [host |-> host, path |-> path]
NoUrl == Url("", <<>>)

\* base_url: the default of config.py, and the one of the test fixtures
BaseUrlDefault == Url("api.manychat.com", <<"fb">>)
BaseUrlRoot == Url("api.manychat.com", <<>>)
ApiVersionDefault == <<"v1">>

ManyChatConfig(rl, mr) ==
    [api_key |-> ApiKey, rate_limit |-> rl, max_retries |-> mr,
     base_url |-> BaseUrlDefault, api_version |-> ApiVersionDefault]

\* the configurations a client is built from: the defaults, a rate limit of
\* one request per second, and one below it
Configs ==
    {ManyChatConfig(RateLimitDefault, MaxRetriesDefault),
     [ManyChatConfig(SecondsPerMinute, 1) EXCEPT !.base_url = BaseUrlRoot],
     [ManyChatConfig(30, 2) EXCEPT !.base_url = BaseUrlRoot]}

\* the api_url property: f"{base_url}/{api_version}"
ApiUrl(cfg) == Url(cfg.base_url.host, cfg.base_url.path \o cfg.api_version)

\* an endpoint string as a URL reference: whether it starts with "/", and
\* its segments
Ref(absolute, segs) == [absolute |-> absolute, segs |-> segs]

Endpoint(e) ==
    CASE e = "fb/page/getTags" -> Ref(FALSE, <<"fb", "page", "getTags">>)
      [] e = "fb/page/getInfo" -> Ref(FALSE, <<"fb", "page", "getInfo">>)
      [] e = "fb/page/setBotFields" -> Ref(FALSE, <<"fb", "page", "setBotFields">>)
      [] e = "fb/subscriber/getInfo" -> Ref(FALSE, <<"fb", "subscriber", "getInfo">>)
      [] e = "fb/subscriber/addTagByName" -> Ref(FALSE, <<"fb", "subscriber", "addTagByName">>)
      [] OTHER -> Ref(FALSE, <<>>)

Front(q) == IF q = <<>> THEN <<>> ELSE SubSeq(q, 1, Len(q) - 1)

\* (a join that appends the reference to the base path)
UrlConcat(base, ref) == Url(base.host, base.path \o ref.segs)

\* urllib.parse.urljoin(base, ref) for a reference that is a path: a
\* reference that starts with "/" replaces the path of the base, any other
\* replaces its last segment
UrlJoin(base, ref) ==
    IF ref.absolute \/ ref.segs = <<>>
    THEN Url(base.host, IF ref.absolute THEN ref.segs ELSE base.path)
    ELSE Url(base.host, Front(base.path) \o ref.segs)

\* the keyword arguments of ManyChatConfig(...): api_key is None when it is
\* not given (and not in the environment), <<key>> otherwise
TimeoutDefault == 30

Kwargs(k, to, mr, rl) ==
    [api_key |-> k, timeout |-> to, max_retries |-> mr, rate_limit |-> rl,
     base_url |-> BaseUrlDefault]

KwargsOf(cfg) ==
    [Kwargs(<<cfg.api_key>>, TimeoutDefault, cfg.max_retries, cfg.rate_limit)
        EXCEPT !.base_url = cfg.base_url]

CandidateKwargs ==
    {Kwargs(k, to, mr, rl) :
        k \in {<<>>, <<"">>, <<ApiKey>>},
        to \in {-1, 0, TimeoutDefault},
        mr \in {-1, 0, MaxRetriesDefault},
        rl \in {-SecondsPerMinute, 0, 30, RateLimitDefault}}

NoConfig ==
    [api_key |-> "", rate_limit |-> 0, max_retries |-> 0, base_url |-> NoUrl,
     api_version |-> <<>>]

\* what pydantic checks of the fields of ManyChatConfig: api_key is required
\* (Field(...)); the other fields have defaults and declare only their type
FieldsValidate(kw) ==
    /\ kw.api_key # <<>>
    /\ kw.timeout \in Int
    /\ kw.max_retries \in Int
    /\ kw.rate_limit \in Int

\* ManyChatConfig(**kw)
ConfigOf(kw) ==
    [ManyChatConfig(kw.rate_limit, kw.max_retries)
        EXCEPT !.api_key = kw.api_key[1], !.base_url = kw.base_url]

-----------------------------------------------------------------------------
(* The connection context: aiohttp.ClientSession as start() builds it *)

Bearer(key) == <<"Bearer ", key>>
NoAuthorization == <<>>

NoSession == [state |-> "none", raise_for_status |-> FALSE, Authorization |-> NoAuthorization]

\* start(), lines 67-76: default headers and raise_for_status=True
NewSession ==
    [state |-> "open", raise_for_status |-> TRUE, Authorization |-> Bearer(config.api_key)]

\* a context built by the caller and assigned to _session (the test fixtures)
PlainSession ==
    [state |-> "open", raise_for_status |-> FALSE, Authorization |-> NoAuthorization]

\* (a start() that builds a context whatever the current one is)
NeedsStartAlways(s) == TRUE

NeedsStart(s) == s.state = "none" \/ s.state = "closed"

\* the contexts start() creates: aiohttp.ClientSession(...), line 67
Opens(s) == IF NeedsStart(s) THEN 1 ELSE 0

\* the contexts close() closes: self._session.close(), line 81
Closes(s) == IF s.state = "open" THEN 1 ELSE 0

\* (an attempt that uses the context as it finds it)
KeepSession(s) == s

\* start(): creates a context only when there is none or it is closed
EnsureOpen(s) == IF NeedsStart(s) THEN NewSession ELSE s

\* close(): closes an open context, leaves anything else alone
Closed(s) == IF s.state = "open" THEN [s EXCEPT !.state = "closed"] ELSE s

-----------------------------------------------------------------------------
(* asyncio.Semaphore(config.rate_limit / 60), src/client.py lines 50-52.     *)
(* The counter is a float; it is kept here in sixtieths, so one permit is    *)
(* SecondsPerMinute units and the initial value is rate_limit units.         *)
(* Two implementations exist in the interpreters the code runs on: the one   *)
(* that loops "while value <= 0" (semLegacy) and the one that takes a permit *)
(* when "not locked()", locked() being "value == 0 or a waiter is queued".   *)

Permit == SecondsPerMinute

NewSemaphore(rl) == [value |-> rl, waiters |-> <<>>, woken |-> {}]

SeqWithout(q, t) == SelectSeq(q, LAMBDA x : x # t)

\* acquire() returns at once, without suspending
SemFree(sem) ==
    IF semLegacy
    THEN sem.value > 0
    ELSE ~(sem.value = 0 \/ Len(sem.waiters) > 0)

SemTake(sem) == [sem EXCEPT !.value = sem.value - Permit]

\* acquire() queues a future and suspends
SemEnqueue(sem, t) == [sem EXCEPT !.waiters = Append(sem.waiters, t)]

\* _wake_up_next(): the first waiter whose future is not done gets its result
SemWakeUpNext(sem) ==
    LET pending == SelectSeq(sem.waiters, LAMBDA x : x \notin sem.woken) IN
    IF Len(pending) = 0 THEN sem
    ELSE IF semLegacy
         THEN [sem EXCEPT !.waiters = SeqWithout(sem.waiters, Head(pending)),
                          !.woken = sem.woken \cup {Head(pending)}]
         ELSE [sem EXCEPT !.value = sem.value - Permit,
                          !.woken = sem.woken \cup {Head(pending)}]

\* release(), run when the "async with" block of _enforce_rate_limit is left
SemRelease(sem) == SemWakeUpNext([sem EXCEPT !.value = sem.value + Permit])

\* a woken waiter runs again: does it hold a permit now?
SemResumeHolds(sem) == IF semLegacy THEN sem.value > 0 ELSE TRUE

\* the semaphore after woken waiter t ran the rest of acquire()
SemResume(sem, t) ==
    LET s0 == [sem EXCEPT !.woken = sem.woken \ {t},
                          !.waiters = SeqWithout(sem.waiters, t)] IN
    IF semLegacy
    THEN IF s0.value > 0 THEN SemTake(s0) ELSE SemEnqueue(s0, t)
    ELSE IF s0.value > 0 THEN SemWakeUpNext(s0) ELSE s0

\* tasks that hold a permit: inside the "async with" block
InAdmission(t) == pc[t] = "pacing"

\* acquire() of waiter t gets CancelledError at "await fut"
SemCancelWaiter(sem, t) ==
    LET s0 == [sem EXCEPT !.woken = sem.woken \ {t},
                          !.waiters = SeqWithout(sem.waiters, t)] IN
    IF t \notin sem.woken THEN s0
    ELSE IF semLegacy
         THEN IF s0.value > 0 THEN SemWakeUpNext(s0) ELSE s0
         ELSE SemWakeUpNext([s0 EXCEPT !.value = s0.value + Permit])

-----------------------------------------------------------------------------
(* Documents, request models and response shapes *)

TagInfo(i, n) == [id |-> i, name |-> n, has_name |-> TRUE]
TagNoName(i) == [id |-> i, name |-> "", has_name |-> FALSE]
TagPool == {TagInfo(1, "Tag 1"), TagInfo(2, "Tag 2")}

RECURSIVE SeqsUpTo(_, _)
SeqsUpTo(S, n) ==
    IF n = 0 THEN {<<>>}
    ELSE LET shorter == SeqsUpTo(S, n - 1) IN
         shorter \cup {Append(q, x) : q \in shorter, x \in S}

TagLists == SeqsUpTo(TagPool, MaxTags)

\* a response body: a JSON object, a body that is not JSON at all (another
\* content type), or one announced as JSON that does not decode
JsonDoc(st, hd, d) == [fmt |-> "json", status |-> st, has_data |-> hd, data |-> d]
NoBody == [fmt |-> "none", status |-> "", has_data |-> FALSE, data |-> <<>>]
TextBody == [fmt |-> "text", status |-> "", has_data |-> FALSE, data |-> <<>>]
MalformedBody == [fmt |-> "malformed", status |-> "", has_data |-> FALSE, data |-> <<>>]
SuccessDoc == JsonDoc("success", FALSE, <<>>)
ErrorDoc == JsonDoc("error", FALSE, <<>>)
TagsDoc(l) == JsonDoc("success", TRUE, l)

\* what the server may answer a request to an endpoint with status 200, and
\* what it may answer with an error status
OkBodies(endpoint) ==
    {SuccessDoc, TextBody, MalformedBody}
    \cup (IF endpoint = "fb/page/getTags"
          THEN {TagsDoc(l) : l \in TagLists} \cup {TagsDoc(<<TagNoName(3)>>)}
          ELSE {ErrorDoc})
ErrBodies == {ErrorDoc, TextBody, MalformedBody}

\* request models: a set of <<field, value>>, value <<>> for None, <<v>> otherwise
None == <<>>
Some(v) == <<v>>
NoRequest == [model |-> "None", fields |-> {}]
AddTagByNameRequest(sid, tag) ==
    [model |-> "AddTagByNameRequest",
     fields |-> {<<"subscriber_id", Some(sid)>>, <<"tag_name", Some(tag)>>}]
GetSubscriberInfoRequest(sid, fs) ==
    [model |-> "GetSubscriberInfoRequest",
     fields |-> {<<"subscriber_id", Some(sid)>>, <<"fields", fs>>}]

\* one entry of the fields argument of set_bot_fields (every entry of the
\* model carries a field_value)
BotField(id, name) == [field_id |-> id, field_name |-> name]
BotFieldIds == {None, Some(0), Some(7)}
BotFieldNames == {None, Some("score")}

\* Python's "not v" for an optional int and for an optional str
FalsyInt(v) == v = None \/ v = Some(0)
FalsyStr(v) == v = None \/ v = Some("")

\* (a BotFieldUpdate without the validator)
BotFieldUpdateAny(f) == TRUE

\* BotFieldUpdate(**field) passes validate_field_identifier
BotFieldUpdate(f) == ~(FalsyStr(f.field_name) /\ FalsyInt(f.field_id))

MaxItems == 20

\* SetBotFieldsRequest(fields=field_updates) passes max_items
SetBotFieldsRequestOk(fs) == Len(fs) <= MaxItems

SetBotFieldsRequest(fs) ==
    [model |-> "SetBotFieldsRequest", fields |-> {<<"fields", Some(fs)>>}]

Repeat(e, n) == [i \in 1..n |-> e]

\* the lists set_bot_fields is called with
FieldLists ==
    {<<>>,
     <<BotField(Some(7), None)>>,
     <<BotField(None, None)>>,
     <<BotField(None, Some("score")), BotField(None, None)>>,
     <<BotField(Some(7), None), BotField(None, Some("score"))>>,
     Repeat(BotField(Some(7), None), MaxItems),
     Repeat(BotField(Some(7), None), MaxItems + 1)}

\* request_data.dict(exclude_none=True) if request_data else None, line 132
JsonData(rd) ==
    IF rd.model = "None" THEN [present |-> FALSE, body |-> {}]
    ELSE [present |-> TRUE,
          body |-> {<<f[1], f[2][1]>> : f \in {g \in rd.fields : g[2] # None}}]

\* response_model.parse_obj(response_data)
NoValue == [model |-> "", status |-> "", has_data |-> FALSE, data |-> <<>>]

ParseOk(model, body) ==
    CASE model = "BaseResponse" -> TRUE
      [] model = "SuccessResponse" -> TRUE
      [] model = "TagsListResponse" ->
            body.has_data /\ \A i \in 1..Len(body.data) : body.data[i].has_name
      [] OTHER -> FALSE

ParseObj(model, body) ==
    CASE model = "BaseResponse" ->
            [model |-> model, status |-> "", has_data |-> FALSE, data |-> <<>>]
      [] OTHER ->
            [model |-> model,
             status |-> IF body.status = "" THEN "success" ELSE body.status,
             has_data |-> body.has_data,
             data |-> body.data]

-----------------------------------------------------------------------------
(* The Retry-After header and int(), src/client.py line 164 *)

Digits == <<"0", "1", "2", "3", "4", "5", "6", "7", "8", "9">>
IsDigit(c) == \E i \in 1..10 : Digits[i] = c
DigitValue(c) == (CHOOSE i \in 1..10 : Digits[i] = c) - 1

RECURSIVE DecimalValue(_)
DecimalValue(cs) ==
    IF Len(cs) = 0 THEN 0
    ELSE 10 * DecimalValue(SubSeq(cs, 1, Len(cs) - 1)) + DigitValue(cs[Len(cs)])

\* int(text) of a header text: decimal digits, or ValueError
IntParses(cs) == Len(cs) > 0 /\ \A i \in 1..Len(cs) : IsDigit(cs[i])

NoHeader == [present |-> FALSE, text |-> <<>>]
Header(cs) == [present |-> TRUE, text |-> cs]
RetryAfterHeaders ==
    {NoHeader, Header(<<"4", "5">>), Header(<<"0">>), Header(<<"a", "b", "c">>), Header(<<>>)}

DefaultRetryAfter == 60

\* int(response.headers.get("Retry-After", 60)) does not raise
RetryAfterParses(h) == ~h.present \/ IntParses(h.text)
RetryAfter(h) == IF h.present THEN DecimalValue(h.text) ELSE DefaultRetryAfter

-----------------------------------------------------------------------------
(* Outcomes of one HTTP exchange *)

Transport == [type |-> "transport", status |-> 0, retry_after |-> NoHeader, body |-> NoBody]
TimedOut == [type |-> "timeout", status |-> 0, retry_after |-> NoHeader, body |-> NoBody]
Response(st, h, b) == [type |-> "response", status |-> st, retry_after |-> h, body |-> b]

ErrorStatuses == {400, 401, 404, 409, 500}

NoExchange == [type |-> "none", status |-> 0, retry_after |-> NoHeader, body |-> NoBody]

HttpOutcomes(endpoint) ==
    {Transport, TimedOut}
    \cup {Response(200, NoHeader, b) : b \in OkBodies(endpoint)}
    \cup {Response(st, NoHeader, ErrorDoc) : st \in ErrorStatuses}
    \cup {Response(500, NoHeader, b) : b \in ErrBodies}
    \cup {Response(429, h, ErrorDoc) : h \in RetryAfterHeaders}

\* the outcomes the calls of the other tasks end with: one of each class
BackgroundOutcomes ==
    {Transport, Response(200, NoHeader, SuccessDoc), Response(401, NoHeader, ErrorDoc),
     Response(429, NoHeader, ErrorDoc)}

\* the kind of an outcome, as the history of a call records it
Kind(o) == <<o.type, o.status>>

-----------------------------------------------------------------------------
(* Errors: src/api/_exceptions.py.  status_code 0 and retry_after -1 stand  *)
(* for None; response NoBody for no body attached.                          *)

Raised(kind, sc, ra, resp) ==
    [kind |-> kind, status_code |-> sc, retry_after |-> ra, response |-> resp,
     value |-> NoValue]
Returned(v) ==
    [kind |-> "ok", status_code |-> 0, retry_after |-> -1, response |-> NoBody,
     value |-> v]
NoResult == Raised("none", 0, -1, NoBody)

ManyChatAPIError(sc, resp) == Raised("ManyChatAPIError", sc, -1, resp)
ManyChatAuthError == Raised("ManyChatAuthError", 401, -1, NoBody)
ManyChatRateLimitError(ra) == Raised("ManyChatRateLimitError", 429, ra, NoBody)
ManyChatValidationError == Raised("ManyChatValidationError", 400, -1, NoBody)

\* the classes of the ManyChatError hierarchy
ManyChatErrors ==
    {"ManyChatAPIError", "ManyChatAuthError", "ManyChatRateLimitError",
     "ManyChatValidationError", "ManyChatNotFoundError", "ManyChatConflictError",
     "ManyChatServerError", "ManyChatTimeoutError", "ManyChatConnectionError",
     "ManyChatRetryError"}

\* (an executor that returns whatever parse_obj could fill in)
ParseResultLenient(model, body) == Returned(ParseObj(model, body))

\* lines 176-181: the parsed value, or ManyChatValidationError for a body that
\* does not fit the response model
ParseResult(model, body) ==
    IF ParseOk(model, body) THEN Returned(ParseObj(model, body))
    ELSE ManyChatValidationError

\* the session's raise_for_status: ClientResponseError for a status of 400 and above
RaisesForStatus(rfs, o) == rfs /\ o.status >= 400

\* what the body of _request, lines 137-188, returns or raises for an exchange
\* on a context created with raise_for_status rfs
Classify(rfs, model, o) ==
    CASE o.type = "transport" -> ManyChatAPIError(0, NoBody)
      [] o.type = "timeout" -> ManyChatAPIError(0, NoBody)
      [] OTHER ->
         IF RaisesForStatus(rfs, o) THEN ManyChatAPIError(0, NoBody)
         ELSE IF o.body.fmt = "text" THEN ManyChatAPIError(0, NoBody)
         ELSE IF o.body.fmt = "malformed" THEN Raised("JSONDecodeError", 0, -1, NoBody)
         ELSE IF o.status >= 400 THEN
              IF o.status = 401 THEN ManyChatAuthError
              ELSE IF o.status = 429 THEN
                   IF RetryAfterParses(o.retry_after)
                   THEN ManyChatRateLimitError(RetryAfter(o.retry_after))
                   ELSE Raised("ValueError", 0, -1, NoBody)
              ELSE ManyChatAPIError(o.status, o.body)
         ELSE ParseResult(model, o.body)

-----------------------------------------------------------------------------
(* The retry decorator: backoff.on_exception(backoff.expo, ..., max_tries=3, *)
(* jitter=backoff.full_jitter), src/client.py lines 92-101                   *)

MaxTries == 3

\* (a decorator that also lists the Auth error)
BackoffExceptionsWithAuth ==
    {"ClientError", "TimeoutError", "ManyChatRateLimitError", "ManyChatAuthError"}

\* the exception classes the decorator retries on
BackoffExceptions == {"ClientError", "TimeoutError", "ManyChatRateLimitError"}
Retryable(r) == r.kind \in BackoffExceptions

\* (a decorator that wraps the last error when it gives up)
GiveUpWrapped(r) == Raised("ManyChatRetryError", r.status_code, r.retry_after, r.response)

\* backoff gives up at max_tries: the except clause of its retry loop
\* re-raises the exception of the last try as it is
GiveUp(r) == r

RECURSIVE Pow2(_)
Pow2(n) == IF n = 0 THEN 1 ELSE 2 * Pow2(n - 1)

\* no backoff wait yet in this call
NoWait == -1

\* (a wait generator that repeats the same value)
ExpoConstant(n) == 2 * TicksPerSec

\* backoff.expo: 1, 2, 4, ... seconds before try 2, 3, 4, ...
Expo(n) == Pow2(n - 1) * TicksPerSec

\* backoff.full_jitter: uniform over [0, value]
FullJitter(value) == 0..value

-----------------------------------------------------------------------------
(* Calls *)

Call(fn, m, e, rd, rm) ==
    [fn |-> fn, method |-> m, endpoint |-> e, request_data |-> rd, response_model |-> rm]
NoCall == Call("", "", "", NoRequest, "")

\* direct calls of the executor, _request(method, endpoint, request_data, response_model)
ExecutorCalls ==
    {Call("_request", "POST", "fb/subscriber/addTagByName",
          AddTagByNameRequest("12345", "VIP"), "SuccessResponse"),
     Call("_request", "GET", "fb/subscriber/getInfo",
          GetSubscriberInfoRequest("12345", None), "BaseResponse"),
     Call("_request", "GET", "fb/page/getTags", NoRequest, "TagsListResponse")}
BackgroundCalls ==
    {Call("_request", "POST", "fb/subscriber/addTagByName",
          AddTagByNameRequest("12345", "VIP"), "SuccessResponse")}

\* the attributes of a ManyChatClient instance, src/client.py lines 42-188
ClientAttributes ==
    {"config", "_session", "_rate_limit_semaphore", "_last_request_time",
     "start", "close", "_enforce_rate_limit", "_request"}
HasAttr(name) == name \in ClientAttributes

\* the HTTP request session.request(method=, url=, json=) sends on context s
HttpRequest(c, s) ==
    [method |-> c.method, endpoint |-> c.endpoint,
     url |-> UrlJoin(ApiUrl(config), Endpoint(c.endpoint)),
     json |-> JsonData(c.request_data),
     Authorization |-> s.Authorization, raise_for_status |-> s.raise_for_status]
NoHttpRequest == [HttpRequest(NoCall, NoSession) EXCEPT !.url = NoUrl]

-----------------------------------------------------------------------------
(* Initial state: ManyChatClient.__init__, no task has called yet.  The     *)
(* loop's clock is at least a second past _last_request_time = 0.           *)

InitClient(cfgs) ==
    /\ config \in cfgs
    /\ kwargs = KwargsOf(config)
    /\ built = "client"
    /\ waited = [t \in Tasks |-> NoWait]
    /\ semLegacy \in BOOLEAN
    /\ session = NoSession
    /\ rate_limit_semaphore = NewSemaphore(config.rate_limit)
    /\ elapsed = TicksPerSec
    /\ pc = [t \in Tasks |-> "idle"]
    /\ call = [t \in Tasks |-> NoCall]
    /\ tries = [t \in Tasks |-> 0]
    /\ sleepLeft = [t \in Tasks |-> 0]
    /\ sent = [t \in Tasks |-> NoHttpRequest]
    /\ dispatched = [t \in Tasks |-> 0]
    /\ exchange = [t \in Tasks |-> NoExchange]
    /\ seen = [t \in Tasks |-> {}]
    /\ result = [t \in Tasks |-> NoResult]
    /\ openContexts = 0
    /\ lastGap = TicksPerSec

Init == InitClient(Configs)

-----------------------------------------------------------------------------
(* The segments of _request between suspension points.  Each sets session,  *)
(* rate_limit_semaphore, elapsed, pc, sleepLeft, sent, dispatched, result,  *)
(* lastGap and waited.                                                     *)

\* lines 145-149: session.request on context s; a closed context raises
\* RuntimeError("Session is closed"), which no handler of _request catches
Dispatch(t, c, s, n) ==
    IF s.state = "open"
    THEN /\ pc' = [pc EXCEPT ![t] = "http"]
         /\ sent' = [sent EXCEPT ![t] = HttpRequest(c, s)]
         /\ dispatched' = [dispatched EXCEPT ![t] = n + 1]
         /\ result' = [result EXCEPT ![t] = NoResult]
         /\ waited' = waited
    ELSE /\ pc' = [pc EXCEPT ![t] = "done"]
         /\ result' = [result EXCEPT ![t] = Raised("RuntimeError", 0, -1, NoBody)]
         /\ waited' = [waited EXCEPT ![t] = NoWait]
         /\ sent' = [sent EXCEPT ![t] = IF n = 0 THEN NoHttpRequest ELSE @]
         /\ dispatched' = [dispatched EXCEPT ![t] = n]

\* (a limiter that stores the clock reading of line 86, taken before the sleep)
StampStale(t, c, s, sem, n) ==
    /\ elapsed' = IF pc[t] = "pacing" THEN 1 ELSE 0
    /\ lastGap' = elapsed
    /\ rate_limit_semaphore' = SemRelease(sem)
    /\ session' = s
    /\ sleepLeft' = [sleepLeft EXCEPT ![t] = 0]
    /\ Dispatch(t, c, s, n)

\* line 90 and the end of the "async with" block, then the dispatch
Stamp(t, c, s, sem, n) ==
    /\ elapsed' = 0
    /\ lastGap' = elapsed
    /\ rate_limit_semaphore' = SemRelease(sem)
    /\ session' = s
    /\ sleepLeft' = [sleepLeft EXCEPT ![t] = 0]
    /\ Dispatch(t, c, s, n)

\* (an admission step that sleeps for the elapsed time, not for the rest of
\* the second)
AdmittedShortSleep(t, c, s, sem, n) ==
    IF elapsed < TicksPerSec
    THEN /\ pc' = [pc EXCEPT ![t] = "pacing"]
         /\ sleepLeft' = [sleepLeft EXCEPT ![t] = elapsed]
         /\ rate_limit_semaphore' = sem
         /\ session' = s
         /\ sent' = [sent EXCEPT ![t] = IF n = 0 THEN NoHttpRequest ELSE @]
         /\ dispatched' = [dispatched EXCEPT ![t] = n]
         /\ result' = [result EXCEPT ![t] = NoResult]
         /\ UNCHANGED <<elapsed, lastGap, waited>>
    ELSE Stamp(t, c, s, sem, n)

\* lines 86-89, holding a permit: sleep when less than a second has elapsed
\* (n: the requests the call has dispatched so far)
Admitted(t, c, s, sem, n) ==
    IF elapsed < TicksPerSec
    THEN /\ pc' = [pc EXCEPT ![t] = "pacing"]
         /\ sleepLeft' = [sleepLeft EXCEPT ![t] = TicksPerSec - elapsed]
         /\ rate_limit_semaphore' = sem
         /\ session' = s
         /\ sent' = [sent EXCEPT ![t] = IF n = 0 THEN NoHttpRequest ELSE @]
         /\ dispatched' = [dispatched EXCEPT ![t] = n]
         /\ result' = [result EXCEPT ![t] = NoResult]
         /\ UNCHANGED <<elapsed, lastGap, waited>>
    ELSE Stamp(t, c, s, sem, n)

\* (an executor that dispatches without calling _enforce_rate_limit)
EnterNoLimiter(t, c, n) ==
    LET s == EnsureOpen(session) IN
    /\ session' = s
    /\ Dispatch(t, c, s, n)
    /\ UNCHANGED <<rate_limit_semaphore, elapsed, sleepLeft, lastGap>>

\* lines 126-135: ensure the context is open, then enter the rate limiter
Enter(t, c, n) ==
    LET s == EnsureOpen(session) IN
    IF SemFree(rate_limit_semaphore)
    THEN Admitted(t, c, s, SemTake(rate_limit_semaphore), n)
    ELSE /\ pc' = [pc EXCEPT ![t] = "acquire"]
         /\ rate_limit_semaphore' = SemEnqueue(rate_limit_semaphore, t)
         /\ session' = s
         /\ sent' = [sent EXCEPT ![t] = IF n = 0 THEN NoHttpRequest ELSE @]
         /\ dispatched' = [dispatched EXCEPT ![t] = n]
         /\ result' = [result EXCEPT ![t] = NoResult]
         /\ UNCHANGED <<elapsed, sleepLeft, lastGap, waited>>

-----------------------------------------------------------------------------
(* Actions *)

\* a task is free to make a call: it has made none, or its last call ended
Free(t) == pc[t] = "idle" \/ pc[t] = "done"

\* a task calls the executor
Request(t, c) ==
    /\ Free(t)
    /\ call' = [call EXCEPT ![t] = c]
    /\ tries' = [tries EXCEPT ![t] = 1]
    /\ exchange' = [exchange EXCEPT ![t] = NoExchange]
    /\ seen' = [seen EXCEPT ![t] = {}]
    /\ Enter(t, c, 0)
    /\ openContexts' = openContexts + Opens(session)
    /\ UNCHANGED <<kwargs, built, config, semLegacy>>

\* an endpoint function: it builds its request model and calls client.request
EndpointCall(t, c) ==
    /\ Free(t)
    /\ call' = [call EXCEPT ![t] = c]
    /\ exchange' = [exchange EXCEPT ![t] = NoExchange]
    /\ seen' = [seen EXCEPT ![t] = {}]
    /\ IF HasAttr("request")
       THEN /\ tries' = [tries EXCEPT ![t] = 1]
            /\ Enter(t, c, 0)
            /\ openContexts' = openContexts + Opens(session)
       ELSE /\ pc' = [pc EXCEPT ![t] = "done"]
            /\ result' = [result EXCEPT ![t] = Raised("AttributeError", 0, -1, NoBody)]
            /\ tries' = [tries EXCEPT ![t] = 0]
            /\ sent' = [sent EXCEPT ![t] = NoHttpRequest]
            /\ dispatched' = [dispatched EXCEPT ![t] = 0]
            /\ UNCHANGED <<session, rate_limit_semaphore, elapsed, sleepLeft,
                           openContexts, lastGap, waited>>
    /\ UNCHANGED <<kwargs, built, config, semLegacy>>

\* the client.request call of add_tag_by_name
AddTagByNameCall ==
    Call("add_tag_by_name", "POST", "fb/subscriber/addTagByName",
         AddTagByNameRequest("12345", "VIP"), "SuccessResponse")

\* add_tag_by_name(client, subscriber_id=, tag_name=)
AddTagByName(t) == EndpointCall(t, AddTagByNameCall)

\* the client.request call of get_tags
GetTagsCall ==
    Call("get_tags", "GET", "fb/page/getTags", NoRequest, "TagsListResponse")

\* get_tags(client)
GetTags(t) == EndpointCall(t, GetTagsCall)

\* an endpoint function raises before it reaches client.request
RaisesBeforeRequest(t, c, kind) ==
    /\ Free(t)
    /\ call' = [call EXCEPT ![t] = c]
    /\ exchange' = [exchange EXCEPT ![t] = NoExchange]
    /\ seen' = [seen EXCEPT ![t] = {}]
    /\ pc' = [pc EXCEPT ![t] = "done"]
    /\ result' = [result EXCEPT ![t] = Raised(kind, 0, -1, NoBody)]
    /\ tries' = [tries EXCEPT ![t] = 0]
    /\ sent' = [sent EXCEPT ![t] = NoHttpRequest]
    /\ dispatched' = [dispatched EXCEPT ![t] = 0]
    /\ UNCHANGED <<kwargs, built, config, semLegacy, session, rate_limit_semaphore,
                   elapsed, sleepLeft, openContexts, lastGap, waited>>

\* the body of set_bot_fields, entered from fn: the entries are validated one
\* by one, then the request model, then client.request is called
SetBotFieldsFrom(t, fn, fields) ==
    LET c == Call(fn, "POST", "fb/page/setBotFields", SetBotFieldsRequest(fields),
                  "SetBotFieldsResponse") IN
    IF (\A i \in 1..Len(fields) : BotFieldUpdate(fields[i])) /\ SetBotFieldsRequestOk(fields)
    THEN EndpointCall(t, c)
    ELSE RaisesBeforeRequest(t, c, "ValidationError")

\* set_bot_fields(client, fields)
SetBotFields(t, fields) == SetBotFieldsFrom(t, "set_bot_fields", fields)

\* set_bot_field(client, field_id=, field_name=, field_value=)
SetBotField(t, id, name) ==
    IF id = None /\ name = None
    THEN RaisesBeforeRequest(t, Call("set_bot_field", "POST", "fb/page/setBotFields",
                                     SetBotFieldsRequest(<<BotField(id, name)>>),
                                     "SetBotFieldsResponse"),
                             "ValueError")
    ELSE SetBotFieldsFrom(t, "set_bot_field", <<BotField(id, name)>>)

\* a waiter of the semaphore, woken by a release, runs again
PermitResume(t) ==
    /\ pc[t] = "acquire"
    /\ t \in rate_limit_semaphore.woken
    /\ IF SemResumeHolds(rate_limit_semaphore)
       THEN Admitted(t, call[t], session, SemResume(rate_limit_semaphore, t),
                     dispatched[t])
       ELSE /\ rate_limit_semaphore' = SemResume(rate_limit_semaphore, t)
            /\ UNCHANGED <<session, elapsed, pc, sleepLeft, lastGap, sent,
                           dispatched, result, waited>>
    /\ UNCHANGED <<kwargs, built, config, semLegacy, call, tries, exchange, seen, openContexts>>

\* the pacing sleep of _enforce_rate_limit ends
PacingWake(t) ==
    /\ pc[t] = "pacing"
    /\ sleepLeft[t] = 0
    /\ Stamp(t, call[t], session, rate_limit_semaphore, dispatched[t])
    /\ UNCHANGED <<kwargs, built, config, semLegacy, call, tries, exchange, seen, openContexts>>

\* the HTTP exchange of a dispatched request ends with outcome o; the retry
\* decorator sleeps and calls again, or the call ends
HttpComplete(t, o) ==
    /\ pc[t] = "http"
    /\ exchange' = [exchange EXCEPT ![t] = o]
    /\ seen' = [seen EXCEPT ![t] = @ \cup {Kind(o)}]
    /\ LET r == Classify(sent[t].raise_for_status, call[t].response_model, o) IN
       IF Retryable(r) /\ tries[t] # MaxTries
       THEN /\ \E w \in FullJitter(Expo(tries[t])) :
                 /\ sleepLeft' = [sleepLeft EXCEPT ![t] = w]
                 /\ waited' = [waited EXCEPT ![t] = w]
            /\ pc' = [pc EXCEPT ![t] = "backoff"]
            /\ result' = result
       ELSE /\ pc' = [pc EXCEPT ![t] = "done"]
            /\ result' = [result EXCEPT ![t] = IF Retryable(r) THEN GiveUp(r) ELSE r]
            /\ sleepLeft' = sleepLeft
            /\ waited' = [waited EXCEPT ![t] = NoWait]
    /\ UNCHANGED <<kwargs, built, config, semLegacy, session, rate_limit_semaphore, elapsed, call,
                   tries, sent, dispatched, openContexts, lastGap>>

\* the backoff sleep ends: the decorator calls _request again
BackoffWake(t) ==
    /\ pc[t] = "backoff"
    /\ sleepLeft[t] = 0
    /\ tries' = [tries EXCEPT ![t] = @ + 1]
    /\ Enter(t, call[t], dispatched[t])
    /\ openContexts' = openContexts + Opens(session)
    /\ UNCHANGED <<kwargs, built, config, semLegacy, call, exchange, seen>>

\* (an admission step that releases the permit by hand after the write, with
\* no "async with": a cancelled sleep keeps it)
CancelledSemKept(t) ==
    IF pc[t] = "acquire"
    THEN SemCancelWaiter(rate_limit_semaphore, t)
    ELSE rate_limit_semaphore

\* the semaphore after task t got CancelledError at its suspension point: the
\* "async with" of line 85 releases the permit of a task cancelled in the
\* sleep of line 89; a task cancelled in acquire() leaves the queue
CancelledSem(t) ==
    IF pc[t] = "pacing" THEN SemRelease(rate_limit_semaphore)
    ELSE IF pc[t] = "acquire" THEN SemCancelWaiter(rate_limit_semaphore, t)
    ELSE rate_limit_semaphore

\* the task that runs a call is cancelled while the call is suspended:
\* CancelledError passes every handler of _request and the retry decorator
Cancel(t) ==
    /\ pc[t] \in {"acquire", "pacing", "http", "backoff"}
    /\ pc' = [pc EXCEPT ![t] = "done"]
    /\ result' = [result EXCEPT ![t] = Raised("CancelledError", 0, -1, NoBody)]
    /\ rate_limit_semaphore' = CancelledSem(t)
    /\ sleepLeft' = [sleepLeft EXCEPT ![t] = 0]
    /\ waited' = [waited EXCEPT ![t] = NoWait]
    /\ UNCHANGED <<kwargs, built, config, semLegacy, session, elapsed, call, tries, sent, dispatched,
                   exchange, seen, openContexts, lastGap>>

\* start(), called by the owner (or __aenter__)
Start ==
    /\ session' = EnsureOpen(session)
    /\ openContexts' = openContexts + Opens(session)
    /\ UNCHANGED <<waited, kwargs, built, config, semLegacy, rate_limit_semaphore, elapsed, pc, call, tries,
                   sleepLeft, sent, dispatched, exchange, seen, result, lastGap>>

\* close(), called by the owner (or __aexit__)
Close ==
    /\ session' = Closed(session)
    /\ openContexts' = openContexts - Closes(session)
    /\ UNCHANGED <<waited, kwargs, built, config, semLegacy, rate_limit_semaphore, elapsed, pc, call, tries,
                   sleepLeft, sent, dispatched, exchange, seen, result, lastGap>>

\* the caller assigns a context of its own to a fresh client, as the fixtures
\* of src/_tests/conftest.py do
SetSession ==
    /\ session.state = "none"
    /\ session' = PlainSession
    /\ openContexts' = openContexts + 1
    /\ UNCHANGED <<waited, kwargs, built, config, semLegacy, rate_limit_semaphore, elapsed, pc, call, tries,
                   sleepLeft, sent, dispatched, exchange, seen, result, lastGap>>

\* the event loop's clock advances by one tick
Tick ==
    /\ elapsed' = Min(elapsed + 1, TicksPerSec)
    /\ sleepLeft' = [t \in Tasks |-> Max(sleepLeft[t] - 1, 0)]
    /\ UNCHANGED <<waited, kwargs, built, config, semLegacy, session, rate_limit_semaphore, pc, call, tries,
                   sent, dispatched, exchange, seen, result, openContexts, lastGap>>

\* Construction: ManyChatConfig(**kwargs), then ManyChatClient(config)
NoSemaphore == [value |-> 0, waiters |-> <<>>, woken |-> {}]

InitConfig ==
    /\ kwargs \in CandidateKwargs
    /\ built = "none"
    /\ waited = [t \in Tasks |-> NoWait]
    /\ config = NoConfig
    /\ semLegacy \in BOOLEAN
    /\ session = NoSession
    /\ rate_limit_semaphore = NoSemaphore
    /\ elapsed = TicksPerSec
    /\ pc = [t \in Tasks |-> "idle"]
    /\ call = [t \in Tasks |-> NoCall]
    /\ tries = [t \in Tasks |-> 0]
    /\ sleepLeft = [t \in Tasks |-> 0]
    /\ sent = [t \in Tasks |-> NoHttpRequest]
    /\ dispatched = [t \in Tasks |-> 0]
    /\ exchange = [t \in Tasks |-> NoExchange]
    /\ seen = [t \in Tasks |-> {}]
    /\ result = [t \in Tasks |-> NoResult]
    /\ openContexts = 0
    /\ lastGap = TicksPerSec

\* ManyChatConfig(**kwargs): pydantic validates the declared fields
NewConfig ==
    /\ built = "none"
    /\ IF FieldsValidate(kwargs)
       THEN /\ config' = ConfigOf(kwargs)
            /\ built' = "config"
       ELSE /\ config' = config
            /\ built' = "ValidationError"
    /\ UNCHANGED <<waited, kwargs, semLegacy, session, rate_limit_semaphore, elapsed, pc, call,
                   tries, sleepLeft, sent, dispatched, exchange, seen, result,
                   openContexts, lastGap>>

\* ManyChatClient(config): asyncio.Semaphore(value) raises ValueError for a
\* negative value
NewClient ==
    /\ built = "config"
    /\ IF config.rate_limit < 0
       THEN /\ built' = "ValueError"
            /\ rate_limit_semaphore' = rate_limit_semaphore
       ELSE /\ built' = "client"
            /\ rate_limit_semaphore' = NewSemaphore(config.rate_limit)
    /\ UNCHANGED <<waited, kwargs, config, semLegacy, session, elapsed, pc, call, tries,
                   sleepLeft, sent, dispatched, exchange, seen, result, openContexts,
                   lastGap>>

NextConfig == NewConfig \/ NewClient

SpecConfig == InitConfig /\ [][NextConfig]_vars

\* Concurrent tasks: every task calls the executor, and the server answers
\* with one outcome of each class
Next ==
    \/ \E t \in Tasks : \E c \in BackgroundCalls : Request(t, c)
    \/ \E t \in Tasks : PermitResume(t)
    \/ \E t \in Tasks : PacingWake(t)
    \/ \E t \in Tasks : \E o \in BackgroundOutcomes : HttpComplete(t, o)
    \/ \E t \in Tasks : BackoffWake(t)
    \/ \E t \in Tasks : Cancel(t)
    \/ Start
    \/ Close
    \/ SetSession
    \/ Tick

Spec == Init /\ [][Next]_vars

\* Concurrent tasks under the scheduling of the event loop: a task that can
\* run does run (a woken waiter, a sleep that is over), every HTTP exchange
\* ends and the clock advances.  The client is built from any configuration
\* the constructors accept, a rate limit of 0 included.
LiveConfigs == Configs \cup {ManyChatConfig(0, MaxRetriesDefault)}

InitLive == InitClient(LiveConfigs)

Fairness ==
    /\ WF_vars(Tick)
    /\ \A t \in Tasks :
          /\ WF_vars(PermitResume(t))
          /\ WF_vars(PacingWake(t))
          /\ WF_vars(BackoffWake(t))
          /\ WF_vars(\E o \in BackgroundOutcomes : HttpComplete(t, o))

SpecLive == InitLive /\ [][Next]_vars /\ Fairness

\* One task: it makes every call, through the executor and through the
\* endpoint functions, and the server answers in every way
NextOne ==
    \/ \E c \in ExecutorCalls : Request(1, c)
    \/ AddTagByName(1)
    \/ GetTags(1)
    \/ \E fields \in FieldLists : SetBotFields(1, fields)
    \/ \E id \in BotFieldIds, name \in BotFieldNames : SetBotField(1, id, name)
    \/ PacingWake(1)
    \/ \E o \in HttpOutcomes(call[1].endpoint) : HttpComplete(1, o)
    \/ BackoffWake(1)
    \/ Start
    \/ Close
    \/ SetSession
    \/ Tick

SpecOne == Init /\ [][NextOne]_vars

-----------------------------------------------------------------------------
(* Claims *)

Ended(t) == pc[t] = "done"
ExecutorCall(t) == call[t].fn = "_request"
OnlySaw(t, status) == seen[t] = {<<"response", status>>}

\* C1: any two consecutive writes of the last-dispatch timestamp (completions
\* of the admission step) of one client are at least 1.0 second apart, for
\* every number of concurrent tasks and every configured rate_limit.
C1_DispatchSpacing == lastGap >= TicksPerSec

\* C2: a call whose HTTP exchange answers with status 401 makes exactly one
\* attempt and raises ManyChatAuthError to the caller.
C2_Status401RaisesAuthError ==
    \A t \in Tasks :
        Ended(t) /\ ExecutorCall(t) /\ OnlySaw(t, 401)
        => /\ tries[t] = 1
           /\ dispatched[t] = 1
           /\ result[t].kind = "ManyChatAuthError"

\* C3: a call whose HTTP exchange answers with status 500 on every attempt
\* dispatches exactly config.max_retries attempts and then raises an error of
\* the ServerError kind.
C3_Status500RetriedToCeiling ==
    \A t \in Tasks :
        Ended(t) /\ ExecutorCall(t) /\ OnlySaw(t, 500)
        => /\ dispatched[t] = config.max_retries
           /\ result[t].kind = "ManyChatServerError"

\* C4: a call that ends on a 429 response raises a RateLimit error whose
\* retry_after is the integer of the Retry-After header, and 60 when the header
\* is absent or does not parse as an integer.
C4_RetryAfterCarried ==
    \A t \in Tasks :
        Ended(t) /\ ExecutorCall(t) /\ exchange[t].type = "response"
                 /\ exchange[t].status = 429
        => /\ result[t].kind = "ManyChatRateLimitError"
           /\ result[t].retry_after =
                 IF exchange[t].retry_after.present /\ IntParses(exchange[t].retry_after.text)
                 THEN DecimalValue(exchange[t].retry_after.text)
                 ELSE DefaultRetryAfter

\* C5: every HTTP request a client dispatches (first use, after close and
\* reopen, on every retry) carries the Authorization header "Bearer " followed
\* by the configured API key.
C5_AuthorizationOnEveryRequest ==
    \A t \in Tasks :
        dispatched[t] > 0 => sent[t].Authorization = <<"Bearer ", config.api_key>>

\* C6: an add_tag_by_name call (subscriber_id "12345", tag_name "VIP") made
\* against a server that answers {"status": "success"} dispatches exactly one
\* HTTP request, a POST whose body holds exactly the request's non-null
\* fields, and returns a success result whose status is "success".  (A call
\* is in that case when it ended and no exchange of it was answered otherwise.)
AnsweredOnlyWith(t, docs) ==
    exchange[t] = NoExchange
    \/ (seen[t] = {<<"response", 200>>} /\ exchange[t].body \in docs)

C6_AddTagByNameRoundTrip ==
    \A t \in Tasks :
        Ended(t) /\ call[t].fn = "add_tag_by_name" /\ AnsweredOnlyWith(t, {SuccessDoc})
        => /\ dispatched[t] = 1
           /\ sent[t].method = "POST"
           /\ sent[t].json = [present |-> TRUE,
                              body |-> {<<"subscriber_id", "12345">>, <<"tag_name", "VIP">>}]
           /\ result[t].kind = "ok"
           /\ result[t].value.status = "success"

\* C7: a get_tags call answered with a success document whose data lists n tag
\* records returns a response whose data has the same n records, in the same
\* order, with the same id and name.
C7_GetTagsKeepsRecords ==
    \A t \in Tasks :
        Ended(t) /\ call[t].fn = "get_tags"
                 /\ AnsweredOnlyWith(t, {TagsDoc(l) : l \in TagLists})
        => /\ result[t].kind = "ok"
           /\ exchange[t].body.has_data
           /\ result[t].value.data = exchange[t].body.data

\* C8: every call of the executor ends by returning a value of the requested
\* response shape or by raising an error of the ManyChatError taxonomy; nothing
\* about the exchange, the headers, the body or the session makes it raise an
\* error outside that set.
C8_OutcomeInTaxonomy ==
    \A t \in Tasks :
        Ended(t) /\ ExecutorCall(t)
        => \/ result[t].kind = "ok" /\ result[t].value.model = call[t].response_model
           \/ result[t].kind \in ManyChatErrors

\* C9: a transport-level failure of an attempt is classified as a Connection
\* error and, while fewer attempts than the ceiling were made, is followed by
\* another attempt: a call that ends on it has made all its attempts and
\* raises ManyChatConnectionError.
C9_TransportFailureRetried ==
    \A t \in Tasks :
        Ended(t) /\ ExecutorCall(t) /\ exchange[t].type = "transport"
        => /\ result[t].kind = "ManyChatConnectionError"
           /\ tries[t] >= config.max_retries

\* C10: an attempt that exceeds the per-request timeout is classified as a
\* Timeout error and, while fewer attempts than the ceiling were made, is
\* followed by another attempt: a call that ends on it has made all its
\* attempts and raises ManyChatTimeoutError.
C10_TimeoutRetried ==
    \A t \in Tasks :
        Ended(t) /\ ExecutorCall(t) /\ exchange[t].type = "timeout"
        => /\ result[t].kind = "ManyChatTimeoutError"
           /\ tries[t] >= config.max_retries

\* C11: a non-retryable outcome (a 4xx status other than 429, or a body that
\* does not fit the response shape) is raised to the caller on its first
\* occurrence: the call has ended, so no further attempt of it is dispatched.
NonRetryableStatuses == {400, 401, 404, 409}

NonRetryable(o, model) ==
    /\ o.type = "response"
    /\ \/ o.status \in NonRetryableStatuses
       \/ o.status < 400 /\ o.body.fmt = "json" /\ ~ParseOk(model, o.body)

C11_NonRetryableEndsCall ==
    \A t \in Tasks :
        NonRetryable(exchange[t], call[t].response_model)
        => /\ Ended(t)
           /\ result[t].kind \in ManyChatErrors \ BackoffExceptions

\* a call that was retried once (after a 429) and then ended on a 401
C11_Witness ==
    \E t \in Tasks :
        /\ Ended(t) /\ tries[t] = 2 /\ dispatched[t] = 2
        /\ exchange[t].status = 401
        /\ result[t].kind = "ManyChatAuthError"

\* C12: the number of HTTP requests dispatched for one call never exceeds the
\* configured maximum config.max_retries, whatever that value is and whatever
\* the outcomes of the attempts are.
C12_AttemptsWithinMaxRetries ==
    \A t \in Tasks : dispatched[t] <= config.max_retries

\* C13: every dispatch of an HTTP request, first attempt or retry, is the end
\* of a run of the rate limiter's admission step by that call: the step in
\* which a call starts its HTTP exchange is the step in which it wrote
\* _last_request_time and left the admission block.
Dispatches(t) == pc[t] # "http" /\ pc'[t] = "http"

C13_AdmissionBeforeDispatch ==
    [][\A t \in Tasks : Dispatches(t) => elapsed' = 0 /\ lastGap' = elapsed]_vars

\* a retry that was dispatched after its own pacing sleep
C13_Witness ==
    \E t \in Tasks : pc[t] = "http" /\ tries[t] = 2 /\ dispatched[t] = 2 /\ lastGap = TicksPerSec

\* C14: no call uses a closed connection context: whenever a call reaches its
\* dispatch, also after a close() that happened while it waited in the rate
\* limiter or in backoff, the context is open or was re-opened first, so the
\* dispatch never fails on a closed context.
C14_NoUseAfterClose ==
    \A t \in Tasks : result[t].kind # "RuntimeError"

\* C15: a client instance has at most one open connection context at every
\* moment: start() and the ensure-open step create a context only when there
\* is none or the current one is closed, so no interleaving of start, requests
\* and close leaves two contexts open or replaces an open one.
C15_OneOpenContext ==
    /\ openContexts <= 1
    /\ session.state = "open" <=> openContexts = 1

\* a request still in flight on an earlier context, which was closed, while
\* the client has a new open one
C15_Witness ==
    \E t \in Tasks :
        /\ pc[t] = "http"
        /\ sent[t].raise_for_status # session.raise_for_status
        /\ session.state = "open"
        /\ openContexts = 1

\* C16: the last-request timestamp of a client never decreases: under every
\* interleaving of admission steps, a step of a task (the clock standing
\* still) leaves the timestamp's age no greater than it was, so each write
\* stores a value greater than or equal to the one it replaces.
C16_TimestampNeverDecreases ==
    [][pc' # pc => elapsed' <= elapsed]_vars

\* two tasks wrote the timestamp at the same clock reading
C16_Witness ==
    /\ lastGap = 0
    /\ elapsed = 0
    /\ \A t \in Tasks : pc[t] = "http" /\ dispatched[t] = 1

\* C17: at most ceil(rate_limit / 60) tasks are inside the admission step
\* (holding a permit) at the same time, for every positive rate_limit, also
\* one that is not a multiple of 60 or is below 60; a task that arrives when
\* all permits are held waits for a release.
CeilDiv(a, b) == (a + b - 1) \div b

C17_AdmissionGateSize ==
    Cardinality({t \in Tasks : InAdmission(t)})
        <= CeilDiv(config.rate_limit, SecondsPerMinute)

\* C18: a task cancelled at a suspension point (waiting for a permit, the
\* pacing sleep, the HTTP wait, the backoff sleep) does not leave the admission
\* gate held: the permits available are the initial count less those of the
\* tasks still inside the admission step (or woken with a permit handed to
\* them), and a task waiting for a permit always has a holder or a woken
\* waiter that will pass the permit on.
PermitsOut ==
    Cardinality({t \in Tasks : InAdmission(t)})
    + (IF semLegacy THEN 0 ELSE Cardinality(rate_limit_semaphore.woken))

C18_CancelReleasesPermit ==
    /\ rate_limit_semaphore.value = config.rate_limit - Permit * PermitsOut
    /\ \A t \in Tasks :
           pc[t] = "acquire" /\ t \notin rate_limit_semaphore.woken
           => \/ \E u \in Tasks : InAdmission(u)
              \/ rate_limit_semaphore.woken # {}

\* a call was cancelled inside the rate limiter, before its first dispatch,
\* and every permit is available again
C18_Witness ==
    \E t \in Tasks :
        /\ result[t].kind = "CancelledError"
        /\ dispatched[t] = 0
        /\ \A u \in Tasks : ~InAdmission(u)
        /\ rate_limit_semaphore.value = config.rate_limit

\* C19: when an HTTP exchange ends with a status below 400 and a document
\* that does not parse into the expected response shape, the call raises a
\* Validation error: it returns no value and it is not retried.
ShapeMismatch(t) ==
    /\ exchange[t].type = "response"
    /\ exchange[t].status < 400
    /\ exchange[t].body.fmt = "json"
    /\ ~ParseOk(call[t].response_model, exchange[t].body)

C20_ErrorsCarryStatusAndBody ==
    \A t \in Tasks :
        Ended(t) /\ ExecutorCall(t) /\ exchange[t].type = "response"
                 /\ result[t].kind \in ManyChatErrors
        => /\ result[t].status_code = exchange[t].status
           /\ result[t].response = exchange[t].body

\* C21: constructing a configuration with an empty API key, or with a
\* timeout, retry count or rate limit that is zero or negative, fails: no
\* configuration and no client (with its admission gate) is ever built from
\* such values.
KwargsAcceptable(kw) ==
    /\ kw.api_key # <<>> /\ kw.api_key # <<"">>
    /\ kw.timeout > 0
    /\ kw.max_retries > 0
    /\ kw.rate_limit > 0

C21_ConfigValidated ==
    built \in {"config", "client"} => KwargsAcceptable(kwargs)

\* C22: a call that has used up its tries on retried outcomes raises the
\* error classified for its last attempt, with that error's kind, status code,
\* body and retry-after: after three 429 responses the caller gets
\* ManyChatRateLimitError with status 429 and the retry_after of the last
\* response, never a normal return and never another error in its place.
Exhausted(t) ==
    /\ Ended(t)
    /\ tries[t] = MaxTries
    /\ dispatched[t] = MaxTries
    /\ Retryable(Classify(sent[t].raise_for_status, call[t].response_model, exchange[t]))

C22_TerminalErrorUnchanged ==
    \A t \in Tasks :
        Exhausted(t)
        => /\ result[t] = Classify(sent[t].raise_for_status, call[t].response_model,
                                   exchange[t])
           /\ result[t].kind = "ManyChatRateLimitError"
           /\ result[t].status_code = 429
           /\ result[t].retry_after = RetryAfter(exchange[t].retry_after)
           /\ result[t].value = NoValue

C22_Witness ==
    /\ Exhausted(1)
    /\ OnlySaw(1, 429)
    /\ exchange[1].retry_after.present
    /\ result[1].retry_after = DecimalValue(exchange[1].retry_after.text)

\* C23: a call that ends on status 400 raises a Validation error, on 404 a
\* Not-found error and on 409 a Conflict error, none of them the generic API
\* error.
C23_StatusClasses ==
    \A t \in Tasks :
        Ended(t) /\ ExecutorCall(t)
        => /\ OnlySaw(t, 400) => result[t].kind = "ManyChatValidationError"
           /\ OnlySaw(t, 404) => result[t].kind = "ManyChatNotFoundError"
           /\ OnlySaw(t, 409) => result[t].kind = "ManyChatConflictError"

\* C24 (as claimed): within one call the backoff waits are strictly
\* increasing, whatever the jitter draws: each wait the retry decorator draws
\* is longer than the one it drew before.
Draws(t) == pc[t] = "http" /\ pc'[t] = "backoff"

C24_WaitsStrictlyIncreasing ==
    [][\A t \in Tasks :
          Draws(t) /\ waited[t] # NoWait => waited'[t] > waited[t]]_vars

\* C24 (amended): the wait before attempt k+1 is drawn from 0 up to 2^(k-1)
\* seconds: at most 1 second before the second attempt and at most 2 seconds
\* before the third, so the bound of the wait doubles from one attempt to the
\* next while the waits themselves need not increase.
C24_WaitWithinDoublingBound ==
    \A t \in Tasks :
        /\ pc[t] = "backoff"
           => /\ sleepLeft[t] <= waited[t]
              /\ tries[t] = 1 => waited[t] \in 0..TicksPerSec
              /\ tries[t] = 2 => waited[t] \in 0..(2 * TicksPerSec)
        /\ pc[t] \in {"acquire", "pacing", "http"} /\ waited[t] # NoWait
           => /\ tries[t] = 2 => waited[t] \in 0..TicksPerSec
              /\ tries[t] = 3 => waited[t] \in 0..(2 * TicksPerSec)

C24_Witness ==
    /\ pc[1] = "backoff"
    /\ tries[1] = 2
    /\ waited[1] = 2 * TicksPerSec
    /\ sleepLeft[1] = 2 * TicksPerSec

Suspends(t) == pc[t] # "pacing" /\ pc'[t] = "pacing"

C26_AdmissionStepPacing ==
    [][\A t \in Tasks :
          /\ Suspends(t)
             => elapsed < TicksPerSec /\ sleepLeft'[t] = TicksPerSec - elapsed
          /\ Dispatches(t) /\ pc[t] # "pacing" => elapsed >= TicksPerSec
          /\ Dispatches(t) /\ pc[t] = "pacing" => sleepLeft[t] = 0
          /\ Dispatches(t)
             => elapsed' = 0 /\ lastGap' = elapsed /\ lastGap' >= TicksPerSec]_vars

\* a task found half a second elapsed and sleeps the other half
C26_Witness ==
    /\ pc[1] = "pacing"
    /\ elapsed = 1
    /\ sleepLeft[1] = TicksPerSec - 1
    /\ lastGap = TicksPerSec

\* C27: set_bot_fields validates its input before any network activity: a
\* call with an entry that has neither field_id nor field_name, or with more
\* than 20 entries, raises a validation error, dispatches no HTTP request and
\* leaves the rate limiter (permits, last-dispatch timestamp) as it was;
\* set_bot_field with neither identifier raises ValueError the same way.
StartsCall(t) ==
    Free(t) /\ <<pc[t], call[t], result[t]>> # <<pc'[t], call'[t], result'[t]>>

FieldsArg(c) == (CHOOSE g \in c.request_data.fields : g[1] = "fields")[2][1]

NoIdentifier(f) == f.field_id = None /\ f.field_name = None

C27_ValidatesBeforeNetwork ==
    [][\A t \in Tasks :
          StartsCall(t) /\ call'[t].fn \in {"set_bot_fields", "set_bot_field"}
          /\ (\/ \E i \in 1..Len(FieldsArg(call'[t])) : NoIdentifier(FieldsArg(call'[t])[i])
              \/ Len(FieldsArg(call'[t])) > 20)
          => /\ pc'[t] = "done"
             /\ result'[t].kind =
                   IF call'[t].fn = "set_bot_fields" THEN "ValidationError" ELSE "ValueError"
             /\ dispatched'[t] = 0
             /\ sent'[t] = NoHttpRequest
             /\ UNCHANGED <<rate_limit_semaphore, elapsed, lastGap, session, openContexts>>]_vars

\* a list of 21 valid entries was refused
C27_Witness ==
    /\ Ended(1)
    /\ call[1].fn = "set_bot_fields"
    /\ Len(FieldsArg(call[1])) = 21
    /\ \A i \in 1..21 : ~NoIdentifier(FieldsArg(call[1])[i])
    /\ result[1].kind = "ValidationError"
    /\ dispatched[1] = 0

\* C28: every attempt of a call, a retry included, starts with the
\* ensure-open check: when the connection context was closed between two
\* attempts of a call (during the backoff wait), the step that starts the next
\* attempt opens a new context before the call enters the rate limiter or
\* dispatches; an open context is kept.
Retries(t) == pc[t] = "backoff" /\ pc'[t] \in {"acquire", "pacing", "http"}

C28_RetryEnsuresOpen ==
    [][\A t \in Tasks :
          Retries(t)
          => /\ session'.state = "open"
             /\ session.state = "open" => session' = session /\ openContexts' = openContexts
             /\ session.state # "open"
                => session' = NewSession /\ openContexts' = openContexts + 1
             /\ pc'[t] = "http"
                => sent'[t].raise_for_status = session'.raise_for_status]_vars

\* a retry, which only a context without raise_for_status can lead to, was
\* dispatched on a context built by start(): the old one was closed during
\* the backoff wait
C28_Witness ==
    /\ pc[1] = "http"
    /\ tries[1] = 2
    /\ dispatched[1] = 2
    /\ OnlySaw(1, 429)
    /\ session = NewSession
    /\ sent[1].raise_for_status

\* C29: every call of the executor terminates: when every HTTP exchange ends
\* and every sleep ends, a call that was made eventually returns or raises,
\* for every number of concurrent callers; no caller waits forever for an
\* admission permit.
InCall(t) == pc[t] \in {"acquire", "pacing", "http", "backoff"}

C29_EveryCallTerminates ==
    \A t \in Tasks : InCall(t) ~> Ended(t)

====
